---- MODULE Spec2Model ----
(***************************************************************************)
(* FireAlert: the per-frame fire decision (fire_detection_system.py), the  *)
(* debounced trigger file written by the streaming callback and read by    *)
(* the one-second presentation poller (app.py), the e-mail cooldown, and   *)
(* the single-threaded poll loop (FireDetectionSystem.run).                *)
(*                                                                         *)
(* Modelling decisions (each stated where it is used):                     *)
(*  - time.time() is the integer clock `now`; it advances between frame    *)
(*    callbacks, never inside one (a callback is short next to a second).  *)
(*  - the file system is reliable: open/write/remove of the trigger file   *)
(*    do what they say (the `except Exception: pass` of app.py 92-93 is    *)
(*    then never taken).                                                   *)
(*  - the two deployments are two values of `mode`; a behaviour is one of  *)
(*    them from its first state on.                                        *)
(***************************************************************************)
EXTENDS Integers, Sequences, FiniteSets, TLC

\* ------------------------------------------------------------ constants
FIRE_DEBOUNCE_FRAMES == 5
NO_FIRE_DEBOUNCE_FRAMES == 20
TRIGGER_MAX_AGE == 120
email_cooldown == 30
consecutive_threshold == 1
COCO_PERSON_CLASS_ID == 0
MIN_CONTOUR_AREA == 200

\* --------------------------------------------------------------- bounds
\* seconds the clock advances in one step
TimeStep == 30
\* number of clock steps a behaviour may take
MaxClockSteps == 5
\* how far a counter may run past its threshold
Extra == 1
\* alarm threads the poll loop may have alive at once
MaxAlarmThreads == 2
\* contours of the combined mask, and detector boxes, in one frame
MaxContours == 2
MaxBoxes == 2

StartTime == TRIGGER_MAX_AGE + email_cooldown
MaxTime == StartTime + MaxClockSteps * TimeStep
MaxFireCount == FIRE_DEBOUNCE_FRAMES + Extra
MaxNoFireCount == NO_FIRE_DEBOUNCE_FRAMES + Extra
MaxDetections == consecutive_threshold + Extra

VARIABLES
    mode,                   \* "stream" (app.py) or "loop" (FireDetectionSystem.run)
    now,                    \* time.time()
    debounce,               \* _debounce: [fire_count, no_fire_count]
    trigger,                \* the trigger file: [exists, text]
    last_email_time,        \* detector.last_email_time
    email_config,           \* TRUE: the sidebar holds an e-mail configuration
    cb,                     \* per callback execution context: [pc, current_time]
    poll,                   \* fire_alert_auto: [pc, read, armed0]
    banner,                 \* what the poller rendered last: "none", "fire", "clear"
    consecutive_detections, \* self.consecutive_detections
    loop_state,             \* run(): "running", "stopped" (break), "crashed" (exception)
    is_alarm_playing,       \* self.is_alarm_playing
    alarm,                  \* alarm threads by stage: [started, checked, playing]
    has_playsound,          \* FALSE: `playsound = None` (import failed)
    prev_frame,             \* self.prev_frame: <<>> is None, <<f>> the copy of frame f
    det,                    \* a call of detect_fire taken alone: its frame and its locals
    \* history variables (no counterpart in the code)
    tick,                   \* the frame being processed, or just processed
    sent,                   \* delivered notifications: [last, gap]
    firstTwo,               \* the first two positive decisions since construction
    posRun,                 \* positive decisions in a row since OFF with counters 0; -1: none
    scen,                   \* ticks of the end-to-end scenario matched so far; -1: off it
    ran                     \* a frame has been processed since main() last ran

code_vars == <<mode, now, debounce, trigger, last_email_time, email_config, cb, poll,
               banner, consecutive_detections, loop_state, is_alarm_playing, alarm,
               has_playsound, prev_frame, det>>
hist_vars == <<tick, sent, firstTwo, posRun, scen, ran>>
vars == <<code_vars, hist_vars>>
loop_vars == <<consecutive_detections, loop_state, is_alarm_playing, alarm, has_playsound>>

\* ---------------------------------------------------- text of a timestamp
RECURSIVE str(_)
\* str(time.time()): the decimal digits of the timestamp
str(n) == IF n < 10 THEN <<n>> ELSE Append(str(n \div 10), n % 10)

RECURSIVE ParseDigits(_)
ParseDigits(s) == IF s = <<>> THEN 0
                  ELSE 10 * ParseDigits(SubSeq(s, 1, Len(s) - 1)) + s[Len(s)]

\* float(f.read().strip() or 0): an empty file reads as 0
float_or_0(text) == IF text = <<>> THEN 0 ELSE ParseDigits(text)

\* ------------------------------------------------------- detect_fire
\* a contour of the combined mask: area and bounding rectangle
Flame == [area |-> 250, w |-> 10, h |-> 20]
Speck == [area |-> 150, w |-> 10, h |-> 20]
\* a detector box: class id and the sum of the fire mask inside the box
PersonBox == [cls |-> COCO_PERSON_CLASS_ID, mask_sum |-> 255]
ObjectBox == [cls |-> 2, mask_sum |-> 255]

RECURSIVE np_sum(_)
\* (mutant) the number of pixels of the crop for their sum
np_count(crop) == Len(crop)

\* np.sum(cropped_mask): the sum of the pixels of the crop
np_sum(crop) == IF crop = <<>> THEN 0 ELSE crop[1] + np_sum(Tail(crop))

\* a detector box with its confidence (percent) and the fire mask inside it,
\* pixel by pixel
Box(cls, conf, crop) ==
    [cls |-> cls, conf |-> conf, crop |-> crop, mask_sum |-> np_sum(crop)]

Frame(contours, boxes, model_raises) ==
    [contours |-> contours, boxes |-> boxes, model_raises |-> model_raises]

\* the frames a tick may bring, one for each outcome of detect_fire: a negative
\* decision, a positive one, and the detector call raising (model_raises) without
\* and with a color-motion region. The decision itself is followed over DetectFrames.
Frames == {Frame({Speck}, {PersonBox}, FALSE), Frame({Speck}, {ObjectBox}, FALSE),
           Frame({}, {}, TRUE), Frame({Flame}, {}, TRUE)}

\* (mutant) the aspect test with <= for < at both ends
AspectOk_le(w, h) == IF h > 0 THEN 15 * h <= 100 * w /\ 100 * w <= 150 * h ELSE FALSE

\* 0.15 < float(w)/h < 1.5, the ratio being 0 when h = 0
AspectOk(w, h) == IF h > 0 THEN 15 * h < 100 * w /\ 100 * w < 150 * h ELSE FALSE

color_motion_fire(frame) ==
    \E c \in frame.contours : c.area > MIN_CONTOUR_AREA /\ AspectOk(c.w, c.h)

\* (mutant) the box loop without `if cls_id == COCO_PERSON_CLASS_ID: continue`
yolo_fire_any(frame) ==
    \E b \in frame.boxes : b.mask_sum > 0

yolo_fire(frame) ==
    \E b \in frame.boxes : b.cls # COCO_PERSON_CLASS_ID /\ b.mask_sum > 0

\* (mutant) `color_motion_fire and yolo_fire`
detect_fire_and(frame) ==
    IF frame.model_raises
    THEN [raised |-> TRUE, fire_detected |-> FALSE]
    ELSE [raised |-> FALSE,
          fire_detected |-> color_motion_fire(frame) /\ yolo_fire(frame)]

\* detect_fire: the model call is not guarded, so its exception leaves the function
detect_fire(frame) ==
    IF frame.model_raises
    THEN [raised |-> TRUE, fire_detected |-> FALSE]
    ELSE [raised |-> FALSE,
          fire_detected |-> color_motion_fire(frame) \/ yolo_fire(frame)]

\* --------------------------------------------------- send_email_alert
SmtpOutcomes == {"ok", "auth_failed", "error"}

\* (mutant) the cooldown test with <= for <
InCooldown_le(current_time, last) == current_time - last <= email_cooldown

\* `if current_time - self.last_email_time < self.email_cooldown: return`
InCooldown(current_time, last) == current_time - last < email_cooldown

\* (mutant) the stamp assigned before the SMTP session, whatever its outcome
AfterSmtp_early(outcome, current_time, last) == current_time

\* the try block: last_email_time is assigned after send_message and quit only;
\* SMTPAuthenticationError returns, any other Exception is caught and printed.
\* "ok" is the session that runs to its end, which the code prints as sent.
AfterSmtp(outcome, current_time, last) == IF outcome = "ok" THEN current_time ELSE last

\* the whole call, as the single-threaded loop makes it
send_email_alert(current_time, last, outcome) ==
    IF InCooldown(current_time, last)
    THEN [called |-> FALSE, ok |-> FALSE, last |-> last]
    ELSE [called |-> TRUE, ok |-> outcome = "ok",
          last |-> AfterSmtp(outcome, current_time, last)]

\* ------------------------------------------------ the presentation poller
\* (mutant) the test of the timestamp without its age
TriggerActive_any_age(text, t_now) == float_or_0(text) # 0

\* `if t and (time.time() - t) < 120`
TriggerActive(text, t_now) ==
    LET t == float_or_0(text) IN t # 0 /\ (t_now - t) < TRIGGER_MAX_AGE

\* what fire_alert_auto reports when it runs, undisturbed, in the current state
AlertState == IF trigger.exists /\ TriggerActive(trigger.text, now) THEN "ARMED" ELSE "OFF"

\* ------------------------------------------------------------ debounce
\* (mutant) the fire threshold with > for >=
FireThresholdReached_gt(count) == count > FIRE_DEBOUNCE_FRAMES

\* `if _debounce["fire_count"] >= FIRE_DEBOUNCE_FRAMES`
FireThresholdReached(count) == count >= FIRE_DEBOUNCE_FRAMES

\* `if _debounce["no_fire_count"] >= NO_FIRE_DEBOUNCE_FRAMES`
ClearThresholdReached(count) == count >= NO_FIRE_DEBOUNCE_FRAMES

\* (mutant) the no-reset update: the other counter is left as it is
count_fire_no_reset(d) == [d EXCEPT !.fire_count = @ + 1]

\* `_debounce["no_fire_count"] = 0` and `_debounce["fire_count"] += 1`
count_fire(d) == [fire_count |-> d.fire_count + 1, no_fire_count |-> 0]

\* `_debounce["fire_count"] = 0` and `_debounce["no_fire_count"] += 1`
count_no_fire(d) == [fire_count |-> 0, no_fire_count |-> d.no_fire_count + 1]

\* (mutant) the positive branch taken whatever the decision
if_fire_detected_always(d) == TRUE

\* `if fire_detected:` of video_frame_callback and of run
if_fire_detected(d) == d.fire_detected

\* (mutant) the loop going on without a frame
not_ret_never(ret) == FALSE

\* `if not ret:` of run
not_ret(ret) == ~ret

\* `if self.consecutive_detections >= self.consecutive_threshold`
LoopThresholdReached(count) == count >= consecutive_threshold

\* ------------------------------------------------------------- history
\* the poller at rest. read: what the file it opened held ("none": it opened none);
\* armed0: it read while a callback that had found the alert ARMED was writing
NoPoll == [pc |-> "idle", read |-> "none", armed0 |-> FALSE]

NoTick == [active |-> FALSE, done |-> FALSE, raised |-> FALSE, raised_cm |-> FALSE,
           pos |-> FALSE, count |-> 0, debounced |-> FALSE, gate |-> FALSE,
           cooled |-> FALSE, called |-> FALSE, ok |-> FALSE, armed0 |-> FALSE,
           no_frame |-> FALSE]

\* the 10-tick scenario of the end-to-end property: TRUE is a positive decision
Scenario == <<FALSE, FALSE, TRUE, TRUE, TRUE, TRUE, TRUE, FALSE, FALSE, FALSE>>

Min(a, b) == IF a < b THEN a ELSE b

\* a notification delivered with stamp t: the stamp, and the time since the one
\* before it (-1: there was none), kept up to the cooldown
Delivered(t) == [last |-> t,
                 gap |-> IF sent.last = 0 THEN -1 ELSE Min(t - sent.last, email_cooldown)]

\* how a gap compares with the cooldown: -1 shorter, 0 equal, 1 longer
Cmp(gap) == IF gap < email_cooldown THEN -1 ELSE IF gap = email_cooldown THEN 0 ELSE 1

\* history updates when the processing of a frame ends with record t
EndTick(w, t) ==
    /\ tick' = [tick EXCEPT ![w] = [t EXCEPT !.active = FALSE, !.done = TRUE]]
    /\ firstTwo' = IF t.pos /\ firstTwo.n = 0
                   THEN [n |-> 1, t |-> now, calls |-> IF t.called THEN 1 ELSE 0, cmp |-> 0]
                   ELSE IF t.pos /\ firstTwo.n = 1
                   THEN [n |-> 2, t |-> 0,
                         calls |-> firstTwo.calls + (IF t.called THEN 1 ELSE 0),
                         cmp |-> Cmp(now - firstTwo.t)]
                   ELSE firstTwo
    /\ scen' = IF /\ scen >= 0
                  /\ scen < Len(Scenario)
                  /\ t.debounced
                  /\ t.pos = Scenario[scen + 1]
               THEN scen + 1
               ELSE -1

\* positive decisions in a row counted from a state that is OFF with both counters 0
NextPosRun(fire) ==
    IF ~fire THEN -1
    ELSE IF posRun >= 1 THEN posRun + 1
    ELSE IF AlertState = "OFF" /\ debounce.fire_count = 0 /\ debounce.no_fire_count = 0
         THEN 1
         ELSE -1

\* no call of detect_fire is followed on its own
NoDet == [pc |-> "none", frame |-> Frame({}, {}, FALSE), color_motion_fire |-> FALSE,
          yolo_fire |-> FALSE, fire_detected |-> FALSE]

Idle(w) == cb[w].pc = "idle"
AllIdle == \A w \in DOMAIN cb : Idle(w)

\* ------------------------------------------------------------- Init
InitCommon ==
    /\ now = StartTime
    /\ debounce = [fire_count |-> 0, no_fire_count |-> 0]
    /\ trigger = [exists |-> FALSE, text |-> <<>>]
    /\ last_email_time = 0
    /\ poll = NoPoll
    /\ banner = "none"
    /\ consecutive_detections = 0
    /\ is_alarm_playing = FALSE
    /\ alarm = [started |-> 0, checked |-> 0, playing |-> 0]
    /\ sent = [last |-> 0, gap |-> -1]
    /\ firstTwo = [n |-> 0, t |-> 0, calls |-> 0, cmp |-> 0]
    /\ posRun = -1
    /\ ran = FALSE
    /\ prev_frame = <<>>

InitStream(workers) ==
    /\ InitCommon
    /\ mode = "stream"
    /\ email_config \in BOOLEAN
    /\ cb = [w \in workers |-> [pc |-> "idle", current_time |-> 0]]
    /\ tick = [w \in workers |-> NoTick]
    /\ loop_state = "none"
    /\ has_playsound = FALSE
    /\ scen = 0
    /\ det = NoDet

InitLoop ==
    /\ InitCommon
    /\ mode = "loop"
    /\ email_config = TRUE
    /\ cb = [w \in {1} |-> [pc |-> "idle", current_time |-> 0]]
    /\ tick = [w \in {1} |-> NoTick]
    /\ loop_state = "running"
    /\ has_playsound \in BOOLEAN
    /\ scen = -1
    /\ det = NoDet

Init == InitStream({1}) \/ InitLoop

\* ------------------------------------------- app.py: video_frame_callback
\* `(time.time() - getattr(detector, "last_email_time", 0)) >= detector.email_cooldown`
CallbackCooldownElapsed(t_now, last) == t_now - last >= email_cooldown

\* (mutant) the e-mail branch without the `if email_config:` test
ReachesSmtp_unconfigured(t_now, last) ==
    /\ CallbackCooldownElapsed(t_now, last)
    /\ ~InCooldown(t_now, last)

\* `if email_config:` nested in the fire-threshold branch, and the two cooldown tests
\* (the callback's and send_email_alert's own) on the way to the SMTP session
ReachesSmtp(t_now, last) ==
    /\ email_config
    /\ CallbackCooldownElapsed(t_now, last)
    /\ ~InCooldown(t_now, last)

\* run_detection and the debounce counters. run_detection is called before the
\* callback's try block, so a failing model call leaves the callback there.
video_frame_callback(w, frame) ==
    /\ mode = "stream"
    /\ Idle(w)
    /\ LET d == detect_fire(frame)
           t0 == [NoTick EXCEPT !.active = TRUE, !.raised = d.raised,
                                !.pos = d.fire_detected,
                                !.armed0 = (AlertState = "ARMED"),
                                !.raised_cm = d.raised /\ color_motion_fire(frame),
                                !.cooled = (now - last_email_time >= email_cooldown)]
       IN IF d.raised
          THEN /\ EndTick(w, t0)
               /\ UNCHANGED <<code_vars, sent, posRun, ran>>
          ELSE IF if_fire_detected(d)
          THEN /\ debounce.fire_count < MaxFireCount
               /\ LET n == debounce.fire_count + 1
                      t1 == [t0 EXCEPT !.count = n, !.debounced = TRUE]
                  IN /\ debounce' = count_fire(debounce)
                     /\ IF FireThresholdReached(n)
                        THEN /\ cb' = [cb EXCEPT ![w].pc = "open"]
                             /\ tick' = [tick EXCEPT ![w] = t1]
                             /\ UNCHANGED <<firstTwo, scen>>
                        ELSE /\ EndTick(w, t1)
                             /\ UNCHANGED cb
               /\ posRun' = NextPosRun(TRUE)
               /\ ran' = TRUE
               /\ prev_frame' = <<frame>>
               /\ UNCHANGED <<mode, det, now, trigger, last_email_time, email_config, poll,
                              banner, loop_vars, sent>>
          ELSE /\ debounce.no_fire_count < MaxNoFireCount
               /\ LET n == debounce.no_fire_count + 1
                      t1 == [t0 EXCEPT !.debounced = TRUE]
                  IN /\ debounce' = count_no_fire(debounce)
                     /\ trigger' = IF ClearThresholdReached(n) /\ trigger.exists
                                   THEN [exists |-> FALSE, text |-> <<>>]
                                   ELSE trigger
                     /\ EndTick(w, t1)
               /\ posRun' = NextPosRun(FALSE)
               /\ ran' = TRUE
               /\ prev_frame' = <<frame>>
               /\ UNCHANGED <<mode, det, now, last_email_time, email_config, cb, poll,
                              banner, loop_vars, sent>>

\* `open(_trigger_file, "w")`: the file exists and is empty from here on
trigger_open(w) ==
    /\ mode = "stream"
    /\ cb[w].pc = "open"
    /\ trigger' = [exists |-> TRUE, text |-> <<>>]
    /\ cb' = [cb EXCEPT ![w].pc = "write"]
    /\ UNCHANGED <<mode, det, prev_frame, now, debounce, last_email_time, email_config, poll, banner,
                   loop_vars, hist_vars>>

\* `f.write(str(time.time()))` and the close; then the e-mail branch up to the
\* cooldown test of send_email_alert. A file removed since the open stays removed.
trigger_write(w) ==
    /\ mode = "stream"
    /\ cb[w].pc = "write"
    /\ trigger' = IF trigger.exists THEN [exists |-> TRUE, text |-> str(now)] ELSE trigger
    /\ IF ReachesSmtp(now, last_email_time)
       THEN /\ cb' = [cb EXCEPT ![w] = [pc |-> "smtp", current_time |-> now]]
            /\ tick' = [tick EXCEPT ![w].gate = TRUE]
            /\ UNCHANGED <<firstTwo, scen>>
       ELSE /\ cb' = [cb EXCEPT ![w].pc = "idle"]
            /\ EndTick(w, [tick[w] EXCEPT !.gate = email_config])
    /\ UNCHANGED <<mode, det, prev_frame, now, debounce, last_email_time, email_config, poll, banner,
                   loop_vars, sent, posRun, ran>>

\* the SMTP session of send_email_alert and `self.last_email_time = current_time`
smtp_session(w, outcome) ==
    /\ mode = "stream"
    /\ cb[w].pc = "smtp"
    /\ last_email_time' = AfterSmtp(outcome, cb[w].current_time, last_email_time)
    /\ sent' = IF outcome = "ok" THEN Delivered(cb[w].current_time) ELSE sent
    /\ cb' = [cb EXCEPT ![w].pc = "idle"]
    /\ EndTick(w, [tick[w] EXCEPT !.called = TRUE, !.ok = (outcome = "ok")])
    /\ UNCHANGED <<mode, det, prev_frame, now, debounce, trigger, email_config, poll, banner, loop_vars,
                   posRun, ran>>

\* ------------------------------------------------ app.py: fire_alert_auto
\* `if os.path.exists(_trigger_file)`
fire_alert_auto_exists ==
    /\ mode = "stream"
    /\ poll.pc = "idle"
    /\ IF trigger.exists
       THEN /\ poll' = [NoPoll EXCEPT !.pc = "read"]
            /\ UNCHANGED banner
       ELSE /\ poll' = NoPoll
            /\ banner' = "clear"
    /\ UNCHANGED <<mode, det, prev_frame, now, debounce, trigger, last_email_time, email_config, cb,
                   loop_vars, hist_vars>>

\* the open, the read and the test of the timestamp; an open that fails (the file
\* was removed since the test) is caught and falls through to "No fire"
fire_alert_auto_read ==
    /\ mode = "stream"
    /\ poll.pc = "read"
    /\ IF trigger.exists
       THEN /\ poll' = [pc |-> "idle",
                         read |-> IF trigger.text = <<>> THEN "empty" ELSE "stamp",
                         armed0 |-> \E w \in DOMAIN cb :
                                       cb[w].pc = "write" /\ tick[w].armed0]
            /\ banner' = IF TriggerActive(trigger.text, now) THEN "fire" ELSE "clear"
       ELSE /\ poll' = NoPoll
            /\ banner' = "clear"
    /\ UNCHANGED <<mode, det, prev_frame, now, debounce, trigger, last_email_time, email_config, cb,
                   loop_vars, hist_vars>>

\* ---------------------------------------------------------- app.py: main
\* Streamlit runs main() again on every interaction: a new _debounce and callback,
\* the detector kept in session_state, the trigger file left as it is
main ==
    /\ mode = "stream"
    /\ AllIdle
    /\ debounce' = [fire_count |-> 0, no_fire_count |-> 0]
    /\ email_config' \in BOOLEAN
    /\ poll' = NoPoll
    /\ banner' = "none"
    /\ tick' = [w \in DOMAIN tick |-> NoTick]
    /\ posRun' = -1
    /\ scen' = -1
    /\ ran' = FALSE
    /\ UNCHANGED <<mode, det, prev_frame, now, trigger, last_email_time, cb, loop_vars, sent, firstTwo>>

\* ------------------------------------------------------------ the clock
Advance ==
    /\ AllIdle
    /\ now + TimeStep <= MaxTime
    /\ now' = now + TimeStep
    /\ tick' = [w \in DOMAIN tick |-> NoTick]
    /\ UNCHANGED <<mode, det, prev_frame, debounce, trigger, last_email_time, email_config, cb, poll,
                   banner, loop_vars, sent, firstTwo, posRun, scen, ran>>

\* --------------------------------------- fire_detection_system.py: run
\* one iteration of `while True`: cap.read(), detect_fire, the consecutive counter,
\* the alarm thread, send_email_alert, imshow and waitKey. Nothing catches an
\* exception of detect_fire but the `finally` that releases the camera.
run(ret, frame, outcome, key_q) ==
    /\ mode = "loop"
    /\ loop_state = "running"
    /\ LET d == detect_fire(frame)
           t0 == [NoTick EXCEPT !.raised = d.raised, !.raised_cm = d.raised /\ color_motion_fire(frame),
                                !.pos = d.fire_detected, !.no_frame = ~ret,
                                !.cooled = (now - last_email_time >= email_cooldown)]
           n == consecutive_detections + 1
           alive == alarm.started + alarm.checked + alarm.playing
       IN IF not_ret(ret)
          THEN /\ loop_state' = "stopped"
               /\ tick' = [tick EXCEPT ![1] = [NoTick EXCEPT !.no_frame = TRUE]]
               /\ UNCHANGED <<prev_frame, consecutive_detections, alarm, last_email_time, sent,
                              firstTwo, scen>>
          ELSE IF d.raised
          THEN /\ loop_state' = "crashed"
               /\ EndTick(1, t0)
               /\ UNCHANGED <<prev_frame, consecutive_detections, alarm, last_email_time, sent>>
          ELSE IF if_fire_detected(d)
          THEN /\ consecutive_detections < MaxDetections
               /\ consecutive_detections' = n
               /\ IF LoopThresholdReached(n)
                  THEN LET e == send_email_alert(now, last_email_time, outcome)
                       IN /\ IF ~is_alarm_playing
                             THEN /\ alive < MaxAlarmThreads
                                  /\ alarm' = [alarm EXCEPT !.started = @ + 1]
                             ELSE UNCHANGED alarm
                          /\ last_email_time' = e.last
                          /\ sent' = IF e.ok THEN Delivered(now) ELSE sent
                          /\ EndTick(1, [t0 EXCEPT !.count = n,
                                                   !.debounced = TRUE, !.gate = TRUE,
                                                   !.called = e.called, !.ok = e.ok])
                  ELSE /\ EndTick(1, [t0 EXCEPT !.count = n, !.debounced = TRUE])
                       /\ UNCHANGED <<alarm, last_email_time, sent>>
               /\ loop_state' = IF key_q THEN "stopped" ELSE "running"
               /\ prev_frame' = <<frame>>
          ELSE /\ consecutive_detections' = 0
               /\ prev_frame' = <<frame>>
               /\ EndTick(1, [t0 EXCEPT !.debounced = TRUE])
               /\ loop_state' = IF key_q THEN "stopped" ELSE "running"
               /\ UNCHANGED <<alarm, last_email_time, sent>>
    /\ UNCHANGED <<mode, det, now, debounce, trigger, email_config, cb, poll, banner,
                   is_alarm_playing, has_playsound, posRun, ran>>

\* ---------------------------------- fire_detection_system.py: play_alarm
\* a started thread enters play_alarm: `if playsound is None: return`, then the
\* test of `self.is_alarm_playing`
play_alarm_test ==
    /\ mode = "loop"
    /\ alarm.started > 0
    /\ alarm' = IF has_playsound /\ ~is_alarm_playing
                THEN [alarm EXCEPT !.started = @ - 1, !.checked = @ + 1]
                ELSE [alarm EXCEPT !.started = @ - 1]
    /\ UNCHANGED <<mode, det, prev_frame, now, debounce, trigger, last_email_time, email_config, cb,
                   poll, banner, consecutive_detections, loop_state, is_alarm_playing,
                   has_playsound, hist_vars>>

\* `self.is_alarm_playing = True`, then playsound starts
play_alarm_set ==
    /\ mode = "loop"
    /\ alarm.checked > 0
    /\ is_alarm_playing' = TRUE
    /\ alarm' = [alarm EXCEPT !.checked = @ - 1, !.playing = @ + 1]
    /\ UNCHANGED <<mode, det, prev_frame, now, debounce, trigger, last_email_time, email_config, cb,
                   poll, banner, consecutive_detections, loop_state, has_playsound,
                   hist_vars>>

\* playsound returns or raises; `finally: self.is_alarm_playing = False`
play_alarm_finally ==
    /\ mode = "loop"
    /\ alarm.playing > 0
    /\ is_alarm_playing' = FALSE
    /\ alarm' = [alarm EXCEPT !.playing = @ - 1]
    /\ UNCHANGED <<mode, det, prev_frame, now, debounce, trigger, last_email_time, email_config, cb,
                   poll, banner, consecutive_detections, loop_state, has_playsound,
                   hist_vars>>

\* ------------------------------------------------------- specifications
NextStream ==
    \/ \E w \in DOMAIN cb, frame \in Frames : video_frame_callback(w, frame)
    \/ \E w \in DOMAIN cb : trigger_open(w)
    \/ \E w \in DOMAIN cb : trigger_write(w)
    \/ \E w \in DOMAIN cb, outcome \in SmtpOutcomes : smtp_session(w, outcome)
    \/ fire_alert_auto_exists
    \/ fire_alert_auto_read
    \/ main
    \/ Advance

NextLoop ==
    \/ \E ret \in BOOLEAN, frame \in Frames, outcome \in SmtpOutcomes, key_q \in BOOLEAN :
          run(ret, frame, outcome, key_q)
    \/ play_alarm_test
    \/ play_alarm_set
    \/ play_alarm_finally

Next == NextStream \/ NextLoop

\* both deployments, one frame callback at a time
Spec == Init /\ [][Next]_vars

\* the frames with a positive decision
FireFrames == {f \in Frames : ~f.model_raises /\ detect_fire(f).fire_detected}

NextOverlap ==
    \/ \E w \in DOMAIN cb, frame \in FireFrames : video_frame_callback(w, frame)
    \/ \E w \in DOMAIN cb : trigger_open(w)
    \/ \E w \in DOMAIN cb : trigger_write(w)
    \/ \E w \in DOMAIN cb, outcome \in SmtpOutcomes : smtp_session(w, outcome)
    \/ main
    \/ Advance

\* the streaming deployment on a stream of fire frames, with two executions of the
\* callback overlapping
SpecOverlap == InitStream({1, 2}) /\ [][NextOverlap]_vars

\* ------------------------------------------------ detect_fire taken alone
\* areas on both sides of the minimum; bounding rectangles <<w, h>> with w/h below
\* 0.15, at 0.15, inside, at 1.5, above 1.5, and a rectangle of height 0
Areas == {200, 201}
Rects == {<<2, 20>>, <<3, 20>>, <<4, 20>>, <<29, 20>>, <<3, 2>>, <<4, 2>>, <<5, 0>>}
Contours == {[area |-> a, w |-> r[1], h |-> r[2]] : a \in Areas, r \in Rects}

\* person and one other class; a confidence at the detection threshold and a high
\* one; crops without pixel, with pixels all 0, and with a pixel of the mask set
Classes == {COCO_PERSON_CLASS_ID, 2}
Confidences == {30, 95}
Crops == {<<>>, <<0, 0>>, <<0, 255>>}
Boxes == {Box(cls, conf, crop) : cls \in Classes, conf \in Confidences, crop \in Crops}

DetectFrames ==
    {Frame(cs, bs, r) : cs \in {x \in SUBSET Contours : Cardinality(x) <= MaxContours},
                        bs \in {x \in SUBSET Boxes : Cardinality(x) <= MaxBoxes},
                        r \in BOOLEAN}

InitDetect ==
    /\ InitCommon
    /\ mode = "detect"
    /\ email_config = FALSE
    /\ cb = [w \in {1} |-> [pc |-> "idle", current_time |-> 0]]
    /\ tick = [w \in {1} |-> NoTick]
    /\ loop_state = "none"
    /\ has_playsound = FALSE
    /\ scen = -1
    /\ \E f \in DetectFrames : det = [NoDet EXCEPT !.pc = "call", !.frame = f]

\* one call detector.detect_fire(frame): the locals color_motion_fire and yolo_fire,
\* the returned fire_detected, and the copy kept in prev_frame; the call is left
\* at the model call when that raises
detect_fire_call ==
    /\ mode = "detect"
    /\ det.pc = "call"
    /\ LET d == detect_fire(det.frame)
       IN /\ det' = IF d.raised
                    THEN [det EXCEPT !.pc = "raised",
                                     !.color_motion_fire = color_motion_fire(det.frame)]
                    ELSE [det EXCEPT !.pc = "return",
                                     !.color_motion_fire = color_motion_fire(det.frame),
                                     !.yolo_fire = yolo_fire(det.frame),
                                     !.fire_detected = d.fire_detected]
          /\ prev_frame' = IF d.raised THEN prev_frame ELSE <<det.frame>>
    /\ UNCHANGED <<mode, now, debounce, trigger, last_email_time, email_config, cb, poll,
                   banner, loop_vars, hist_vars>>

NextDetect == detect_fire_call

\* one call of detect_fire on a frame drawn from DetectFrames
SpecDetect == InitDetect /\ [][NextDetect]_vars

\* ================================================================ claims
Ticks == DOMAIN tick

\* ---------------------------------------------------------------- C1
\* C1: in the streaming callback, counting N positive decisions in a row from a
\* state that is OFF with both counters 0: while N < 5 the alert state is OFF; at
\* the end of the tick where N reaches 5, and of every later positive tick, it is
\* ARMED.
C1_DebounceArms ==
    /\ (posRun >= 1 /\ posRun < 5) => AlertState = "OFF"
    /\ \A w \in Ticks :
          (posRun >= 5 /\ tick[w].done /\ tick[w].pos) => AlertState = "ARMED"

\* the threshold was reached and a further positive tick has ended
C1_Witness ==
    /\ mode = "stream"
    /\ posRun > 5
    /\ tick[1].done /\ tick[1].pos
    /\ AlertState = "ARMED"

\* ---------------------------------------------------------------- C2
\* C2: between frames, the alert state goes from ARMED to OFF only by the step that
\* takes the count of negative decisions in a row to 20 (not by fewer negatives,
\* not by elapsed time, not by the poller).
C2_OnlyClearStreakDisarms ==
    [][(AllIdle /\ AllIdle' /\ AlertState = "ARMED" /\ AlertState' = "OFF")
         => (/\ debounce'.no_fire_count = debounce.no_fire_count + 1
             /\ debounce'.no_fire_count >= 20)]_vars

\* ---------------------------------------------------------------- C3
Expected == <<"OFF", "OFF", "OFF", "OFF", "OFF", "OFF", "ARMED", "ARMED", "ARMED", "ARMED">>

\* C3: feeding clear, clear, fire x5, clear x3 from the start, the alert state at
\* the end of tick k is the k-th of OFF x6, ARMED x4.
C3_EndToEnd ==
    \A w \in Ticks : (scen >= 1 /\ tick[w].done) => AlertState = Expected[scen]

\* ---------------------------------------------------------------- C4
\* C4 (as claimed): of the first two positive decisions, separated by less than the
\* cooldown exactly one makes the delegated notify call; separated by more, both do.
C4_TwoDecisions ==
    firstTwo.n = 2 =>
        /\ firstTwo.cmp = -1 => firstTwo.calls = 1
        /\ firstTwo.cmp = 1 => firstTwo.calls = 2

\* C4 (amended): a positive decision that reaches the notifier (threshold met and,
\* in the streaming callback, e-mail configured) makes no delegated call when it
\* comes less than the cooldown after the last delivered notification, and makes
\* one when it comes the cooldown or more after it (or none was delivered yet); a
\* call that did not deliver does not count.
C4_GateAfterDelivery ==
    \A w \in Ticks :
        (tick[w].done /\ tick[w].gate) =>
            IF tick[w].ok
            THEN tick[w].called /\ sent.last = now /\ sent.gap \in {-1, email_cooldown}
            ELSE /\ (now - sent.last < 30) => ~tick[w].called
                 /\ (now - sent.last >= 30) => tick[w].called

\* a second decision inside the cooldown of a delivered notification: no call
C4_Witness ==
    /\ tick[1].done /\ tick[1].gate /\ ~tick[1].called
    /\ sent.last > 0
    /\ now - sent.last < 30

\* ---------------------------------------------------------------- C5
\* C5: any two delivered notifications are at least the cooldown apart, also when
\* executions of the frame callback overlap.
C5_DeliveriesApart == sent.gap = -1 \/ sent.gap >= 30

\* ---------------------------------------------------------------- C6
\* C6: last_email_time is the stamp of the last delivered notification (0 before
\* the first), so a call that fails leaves it as it was; and a failed call ends
\* the tick normally, nothing being raised to the caller.
C6_FailureKeepsClock ==
    /\ last_email_time = sent.last
    /\ \A w \in Ticks :
          (tick[w].done /\ tick[w].called /\ ~tick[w].ok) =>
              (Idle(w) /\ loop_state # "crashed")

\* a call failed after an earlier one had delivered, and the cooldown has run out:
\* the clock still shows the delivery
C6_Witness ==
    /\ tick[1].done /\ tick[1].called /\ ~tick[1].ok
    /\ sent.last > 0
    /\ last_email_time = sent.last

\* ---------------------------------------------------------------- C7
\* C7 (as claimed): every positive decision, whatever the counter, makes the
\* delegated call when the cooldown has run out.
C7_EveryPositiveEligible ==
    \A w \in Ticks :
        (tick[w].done /\ tick[w].pos /\ tick[w].cooled) => tick[w].called

\* C7 (amended): a positive decision makes the delegated call exactly when the
\* cooldown has run out and the counter of positive decisions in a row has
\* reached the threshold (5 in the streaming callback, where e-mail must also be
\* configured; 1 in the poll loop).
C7_ThresholdGatesNotification ==
    \A w \in Ticks :
        (tick[w].done /\ tick[w].pos) =>
            (tick[w].called <=>
                /\ tick[w].cooled
                /\ IF mode = "stream"
                   THEN tick[w].count >= 5 /\ email_config
                   ELSE tick[w].count >= 1)

\* a positive decision below the threshold with the cooldown run out: no call
C7_Witness ==
    /\ mode = "stream"
    /\ email_config
    /\ tick[1].done /\ tick[1].pos /\ tick[1].cooled
    /\ tick[1].count < 5
    /\ ~tick[1].called

\* ---------------------------------------------------------------- C8
\* C8: the poller never reports "no fire" from a read of the trigger file
\* half-written (opened for writing and still empty) by a callback that found the
\* alert ARMED and is about to write it ARMED again.
C8_ReaderSeesWholeValue ==
    ~(poll.read = "empty" /\ poll.armed0 /\ banner = "clear")

\* ---------------------------------------------------------------- C9
\* C9: a tick whose detector call raised still yields a decision, equal to the
\* color-motion signal, still runs the debounce step, and the stream goes on.
C9_DetectorFailureRecovered ==
    \A w \in Ticks :
        (tick[w].done /\ tick[w].raised) =>
            /\ tick[w].debounced
            /\ tick[w].pos = tick[w].raised_cm
            /\ loop_state # "crashed"

\* ---------------------------------------------------------------- C10
\* C10: until main() has had its first frame processed, the alert state is OFF and
\* the poller reports no alert.
C10_OffUntilFirstFrame ==
    (mode = "stream" /\ ~ran) => (AlertState = "OFF" /\ banner # "fire")

\* ---------------------------------------------------------------- C11
\* C11: when detect_fire returns, fire_detected is the OR of its locals
\* color_motion_fire and yolo_fire: (F,F) gives F, (T,F), (F,T) and (T,T) give T.
C11_FusedByOr ==
    det.pc = "return" =>
        /\ (~det.color_motion_fire /\ ~det.yolo_fire) => ~det.fire_detected
        /\ (det.color_motion_fire /\ ~det.yolo_fire) => det.fire_detected
        /\ (~det.color_motion_fire /\ det.yolo_fire) => det.fire_detected
        /\ (det.color_motion_fire /\ det.yolo_fire) => det.fire_detected

\* a call returned a positive decision on one of the two signals alone
C11_Witness ==
    /\ det.pc = "return"
    /\ det.color_motion_fire # det.yolo_fire
    /\ det.fire_detected

\* ---------------------------------------------------------------- C12
\* C12: when every box of the frame is of class person (id 0), yolo_fire is false,
\* whatever the confidence of the boxes and whatever the fire mask holds inside them.
C12_PersonNeverFire ==
    (det.pc = "return" /\ \A b \in det.frame.boxes : b.cls = 0) => ~det.yolo_fire

\* a call returned on a frame whose boxes are all persons, one of them at high
\* confidence over a set pixel of the fire mask
C12_Witness ==
    /\ det.pc = "return"
    /\ \A b \in det.frame.boxes : b.cls = 0
    /\ \E b \in det.frame.boxes : b.conf = 95 /\ \E i \in DOMAIN b.crop : b.crop[i] # 0
    /\ ~det.yolo_fire

\* ---------------------------------------------------------------- C13
\* C13: yolo_fire is true only if some box that is not a person has at least one
\* non-zero pixel of the fire mask inside it; a box over pixels that are all 0 does
\* not set it, at any confidence.
C13_NeedsMaskPixel ==
    (det.pc = "return" /\ det.yolo_fire) =>
        \E b \in det.frame.boxes :
            b.cls # 0 /\ \E i \in DOMAIN b.crop : b.crop[i] # 0

\* a call returned yolo_fire false on a frame with a high-confidence box that is
\* not a person and lies over pixels of the mask that are all 0
C13_Witness ==
    /\ det.pc = "return"
    /\ ~det.yolo_fire
    /\ \E b \in det.frame.boxes :
           b.cls # 0 /\ b.conf = 95 /\ Len(b.crop) > 0 /\ \A i \in DOMAIN b.crop : b.crop[i] = 0

\* ---------------------------------------------------------------- C14
\* C14: color_motion_fire is set only if some contour has an area above 200 and a
\* ratio w/h strictly between 0.15 (3/20) and 1.5 (3/2); a contour with w/h at 0.15,
\* at 1.5 or outside does not set it.
C14_AspectStrictlyInside ==
    (det.pc = "return" /\ det.color_motion_fire) =>
        \E c \in det.frame.contours :
            c.area > 200 /\ c.h > 0 /\ 3 * c.h < 20 * c.w /\ 2 * c.w < 3 * c.h

\* a call returned color_motion_fire false on a frame with a large contour at
\* w/h = 0.15 and another at w/h = 1.5
C14_Witness ==
    /\ det.pc = "return"
    /\ ~det.color_motion_fire
    /\ \E c \in det.frame.contours : c.area > 200 /\ c.h > 0 /\ 20 * c.w = 3 * c.h
    /\ \E c \in det.frame.contours : c.area > 200 /\ c.h > 0 /\ 2 * c.w = 3 * c.h

\* ---------------------------------------------------------------- C15
\* C15: a tick reaches the e-mail branch, or makes the notification call, only
\* if the decision detect_fire returned for its frame is positive; this in the
\* streaming callback and in the poll loop.
C15_NotifyOnlyOnPositive ==
    \A w \in Ticks : (tick[w].gate \/ tick[w].called) => tick[w].pos

\* a negative decision while the alert is ARMED, e-mail is configured and the
\* cooldown has run out: no call
C15_Witness ==
    /\ mode = "stream"
    /\ email_config
    /\ AlertState = "ARMED"
    /\ tick[1].done /\ tick[1].debounced /\ ~tick[1].pos
    /\ tick[1].cooled
    /\ ~tick[1].gate /\ ~tick[1].called

\* ---------------------------------------------------------------- C16
\* C16: every step of the callback that counts a decision leaves, for a positive
\* decision, no_fire_count at 0 and fire_count one higher, and for a negative
\* decision fire_count at 0 and no_fire_count one higher; and in every state at
\* most one of the two counters is not 0.
C16_CountersReset ==
    /\ [](debounce.fire_count = 0 \/ debounce.no_fire_count = 0)
    /\ [][\A w \in Ticks :
              (Idle(w) /\ tick'[w].debounced /\ debounce' # debounce) =>
                  IF tick'[w].pos
                  THEN /\ debounce'.no_fire_count = 0
                       /\ debounce'.fire_count = debounce.fire_count + 1
                  ELSE /\ debounce'.fire_count = 0
                       /\ debounce'.no_fire_count = debounce.no_fire_count + 1]_vars

\* a positive decision that found the alert OFF and the counter of negative
\* decisions above 0, and set it back to 0
C16_Witness ==
    /\ mode = "stream"
    /\ tick[1].done /\ tick[1].pos /\ tick[1].count = 1
    /\ ~tick[1].armed0
    /\ posRun = -1
    /\ debounce = [fire_count |-> 1, no_fire_count |-> 0]

\* ---------------------------------------------------------------- C17
\* C17: in the poll loop a positive decision that is the first of its run (and
\* here the first since construction) does not both start the alarm thread and
\* make the notification call.
C17_IsolatedPositiveNoAlert ==
    ~(/\ mode = "loop"
      /\ tick[1].done /\ tick[1].pos /\ tick[1].count = 1
      /\ firstTwo.n = 1
      /\ tick[1].called
      /\ alarm.started = 1)

\* ---------------------------------------------------------------- C18
\* C18: the iteration of the poll loop that gets no frame (ret false) leaves
\* prev_frame, consecutive_detections, last_email_time, the alarm threads and the
\* delivered notifications as they were, makes no decision and no call, and ends
\* the loop.
C18_NoFrameNoPipeline ==
    [][(tick'[1].no_frame /\ ~tick[1].no_frame) =>
          /\ UNCHANGED <<prev_frame, consecutive_detections, last_email_time, alarm,
                         is_alarm_playing, sent>>
          /\ ~tick'[1].debounced /\ ~tick'[1].raised
          /\ ~tick'[1].gate /\ ~tick'[1].called
          /\ loop_state' = "stopped"]_vars

\* no frame after frames were processed, positives counted and a notification
\* delivered
C18_Witness ==
    /\ tick[1].no_frame
    /\ loop_state = "stopped"
    /\ prev_frame # <<>>
    /\ consecutive_detections > 0
    /\ last_email_time > 0

\* ---------------------------------------------------------------- C19
\* C19: in the poll loop at most one alarm thread is playing at any time.
C19_OneAlarmAtATime == alarm.playing <= 1

====
